---- MODULE Spec2Model ----
(***************************************************************************)
(* Model of the calendar reconciliation engine (src/src/sync.py) and of    *)
(* the orchestrator that drives it (src/main.py).                          *)
(*                                                                         *)
(* Two remote calendars, A and B, are configured as in main.py with a      *)
(* BUSY mapping A -> B (sync_caldav_busy A -> B followed by the companion  *)
(* sync_caldav_full_oneway B -> A) and a FULL mapping B <-> A              *)
(* (sync_caldav_caldav).  main.py derives                                  *)
(*     busy mapping : A__B__busy.json  and  B__A__full.json                *)
(*     full mapping : B__A__full.json                                      *)
(* so the companion one-way stage and the FULL mapping use the same path.  *)
(*                                                                         *)
(* A calendar is a partial map uid -> event.  An event carries the fields  *)
(* the engine reads: LAST-MODIFIED (0 = absent), DTSTAMP, SUMMARY,         *)
(* DTSTART, DTEND.  A backend stores a written payload verbatim.           *)
(***************************************************************************)
EXTENDS Integers, FiniteSets, Sequences, TLC

VARIABLES
    calA,       \* calendar A: the source of the BUSY mapping
    calB,       \* calendar B: the target of the BUSY mapping
    busyState,  \* the file A__B__busy.json
    fullState,  \* the file B__A__full.json
    clock,      \* the wall clock (datetime.now)
    pc,         \* main(): "idle", or "oneway" between the two stages of the BUSY mapping;
                \* in SpecConfig the configuration, the loop index and the stage;
                \* in SpecCollide whether the run met a uid collision
    wrote,      \* history: the state files the current mapping invocation has changed;
                \* in SpecConfig and SpecCollide the kinds of I/O performed;
                \* in SpecOrder the operations of the last run, in issue order
    tombed,     \* history: the uids a BUSY run has tombstoned for a missing placeholder
    seenA,      \* history: the uids calendar A held at the start of a stage of the
                \* BUSY mapping run by main()
    last        \* history: the last step

vars == <<calA, calB, busyState, fullState, clock, pc, wrote, tombed, seenA, last>>

(***************************************************************************)
(* Bounds of the model.                                                    *)
(***************************************************************************)
MaxUid == 2
MaxTs == 2
MaxUidBusy == 1
MaxTsBusy == 3
MaxUidMain == 1
MaxTsMain == 2
MaxUidCfg == 1
MaxMappings == 2
MaxUidCodec == 2
MaxUidCollide == 2
MaxFetched == 2
MaxUidOrder == 2
MaxTsOrder == 2

(***************************************************************************)
(* Events and calendars.                                                   *)
(***************************************************************************)
NoEvent == [lastmod |-> 0, dtstamp |-> 0, summary |-> "", dtstart |-> 0, dtend |-> 0]

Ev(lm, st, summ, s, e) ==
    [lastmod |-> lm, dtstamp |-> st, summary |-> summ, dtstart |-> s, dtend |-> e]

EmptyMap == [u \in {} |-> 0]

Put(cal, u, e) == [v \in DOMAIN cal \cup {u} |-> IF v = u THEN e ELSE cal[v]]

Remove(cal, u) == [v \in DOMAIN cal \ {u} |-> cal[v]]

\* _parse_ical_metadata: the timestamp is LAST-MODIFIED, or DTSTAMP when the
\* event has no LAST-MODIFIED.  (The uid is the key of the view.)
ParseTs(e) == IF e.lastmod # 0 THEN e.lastmod ELSE e.dtstamp

\* _get_summary
GetSummary(e) == e.summary

\* _parse_dt_range
ParseDtRange(e) == <<e.dtstart, e.dtend>>

\* datetime.isoformat() / datetime.fromisoformat(): the text kept in a state file.
IsoFormat(t) == <<"iso", t>>

FromIsoFormat(s) == s[2]

Max(a, b) == IF a > b THEN a ELSE b

(***************************************************************************)
(* Remote operations.  An operation names the calendar it is issued on,    *)
(* the uid, the payload written (NoEvent for a delete) and the event that  *)
(* was stored under that uid when the run fetched the calendar.            *)
(***************************************************************************)
Op(kind, cal, u, payload, old) ==
    [op |-> kind, cal |-> cal, uid |-> u, payload |-> payload, old |-> old]

\* CaldavClient.create_event / update_event / delete_event applied to one calendar.
ApplyOps(cal, name, ops) ==
    LET mine    == {o \in ops : o.cal = name}
        deleted == {o.uid : o \in {x \in mine : x.op = "delete"}}
        written == {o \in mine : o.op \in {"create", "update"}}
        wuids   == {o.uid : o \in written}
    IN  [u \in (DOMAIN cal \ deleted) \cup wuids |->
            IF u \in wuids
            THEN (CHOOSE o \in written : o.uid = u).payload
            ELSE cal[u]]

(***************************************************************************)
(* State files.                                                            *)
(*   absent  : no file at the path                                         *)
(*   plain   : what sync_caldav_caldav writes, {uid: iso}                  *)
(*   oneway  : what sync_caldav_full_oneway writes,                        *)
(*             {"__mode": "full_oneway", uid: iso}                         *)
(*   busy    : what sync_caldav_busy writes                                *)
(*   corrupt : an empty or truncated file (not valid JSON)                 *)
(***************************************************************************)
NoFile == [fmt |-> "absent"]

CorruptFile == [fmt |-> "corrupt"]

PlainFile(entries) == [fmt |-> "plain", entries |-> entries]

OnewayFile(entries) == [fmt |-> "oneway", entries |-> entries]

BusyFile(synced, busy, tomb, real) ==
    [fmt |-> "busy", synced |-> synced, busy_uids |-> busy,
     tombstones |-> tomb, real_uids |-> real]

Decode(entries) == [u \in DOMAIN entries |-> FromIsoFormat(entries[u])]

Encode(state) == [u \in DOMAIN state |-> IsoFormat(state[u])]

(***************************************************************************)
(* Loaders.  Each returns whether the load succeeded and the prior state.  *)
(***************************************************************************)
\* sync_caldav_caldav, step 1: json.load, then fromisoformat on every value.
\* The value under "__mode" or under "synced" is not an ISO timestamp, and an
\* empty or truncated file is not JSON: the exception is not caught.
LoadFull(file) ==
    CASE file.fmt = "absent" -> [ok |-> TRUE, state |-> EmptyMap]
      [] file.fmt = "plain"  -> [ok |-> TRUE, state |-> Decode(file.entries)]
      [] OTHER               -> [ok |-> FALSE, state |-> EmptyMap]

\* sync_caldav_full_oneway, step 1: entries are used only under the tag
\* "__mode": "full_oneway"; every exception is caught.
LoadOneway(file) ==
    CASE file.fmt = "oneway" -> [ok |-> TRUE, state |-> Decode(file.entries)]
      [] OTHER               -> [ok |-> TRUE, state |-> EmptyMap]

EmptyBusy == [synced |-> EmptyMap, busy_uids |-> {}, tombstones |-> {}, real_uids |-> {}]

\* sync_caldav_busy, step 1: json.load (uncaught), then data.get(key, default).
LoadBusy(file) ==
    CASE file.fmt = "busy" ->
            [ok |-> TRUE,
             state |-> [synced |-> Decode(file.synced), busy_uids |-> file.busy_uids,
                        tombstones |-> file.tombstones, real_uids |-> file.real_uids]]
      [] file.fmt = "corrupt" -> [ok |-> FALSE, state |-> EmptyBusy]
      [] OTHER -> [ok |-> TRUE, state |-> EmptyBusy]

(***************************************************************************)
(* sync_caldav_caldav: two-way reconcile of views ma (client_a, named na)  *)
(* and mb (client_b, named nb) against the prior state P.                  *)
(***************************************************************************)
\* Mutation of FullOpOf: a uid missing on one side is created there even
\* when the prior state knows it.
FullOpOf_CreateKnown(P, ma, mb, na, nb, u) ==
    LET in_a == u \in DOMAIN ma
        in_b == u \in DOMAIN mb
    IN  IF in_a /\ ~in_b THEN {Op("create", nb, u, ma[u], NoEvent)}
        ELSE IF in_b /\ ~in_a THEN {Op("create", na, u, mb[u], NoEvent)}
        ELSE IF in_a /\ in_b THEN
            IF ParseTs(ma[u]) > ParseTs(mb[u]) THEN {Op("update", nb, u, ma[u], mb[u])}
            ELSE IF ParseTs(mb[u]) > ParseTs(ma[u]) THEN {Op("update", na, u, mb[u], ma[u])}
            ELSE {}
        ELSE {}

\* Mutation of FullOpOf: an orphan of a previously recorded uid is kept
\* instead of deleted.
FullOpOf_KeepOrphan(P, ma, mb, na, nb, u) ==
    LET in_a == u \in DOMAIN ma
        in_b == u \in DOMAIN mb
        prev == u \in DOMAIN P
    IN  IF ~prev /\ in_a /\ ~in_b THEN {Op("create", nb, u, ma[u], NoEvent)}
        ELSE IF ~prev /\ in_b /\ ~in_a THEN {Op("create", na, u, mb[u], NoEvent)}
        ELSE IF in_a /\ in_b THEN
            IF ParseTs(ma[u]) > ParseTs(mb[u]) THEN {Op("update", nb, u, ma[u], mb[u])}
            ELSE IF ParseTs(mb[u]) > ParseTs(ma[u]) THEN {Op("update", na, u, mb[u], ma[u])}
            ELSE {}
        ELSE {}

\* Mutation of FullOpOf: equal timestamps count as "a is newer".
FullOpOf_TieUpdate(P, ma, mb, na, nb, u) ==
    LET in_a == u \in DOMAIN ma
        in_b == u \in DOMAIN mb
        prev == u \in DOMAIN P
    IN  IF prev /\ in_a /\ ~in_b THEN {Op("delete", na, u, NoEvent, ma[u])}
        ELSE IF prev /\ in_b /\ ~in_a THEN {Op("delete", nb, u, NoEvent, mb[u])}
        ELSE IF ~prev /\ in_a /\ ~in_b THEN {Op("create", nb, u, ma[u], NoEvent)}
        ELSE IF ~prev /\ in_b /\ ~in_a THEN {Op("create", na, u, mb[u], NoEvent)}
        ELSE IF in_a /\ in_b THEN
            IF ParseTs(ma[u]) >= ParseTs(mb[u]) THEN {Op("update", nb, u, ma[u], mb[u])}
            ELSE {Op("update", na, u, mb[u], ma[u])}
        ELSE {}

\* The operation the loop body issues for one uid (a set with 0 or 1 element).
FullOpOf(P, ma, mb, na, nb, u) ==
    LET in_a == u \in DOMAIN ma
        in_b == u \in DOMAIN mb
        prev == u \in DOMAIN P
    IN  IF prev /\ in_a /\ ~in_b THEN {Op("delete", na, u, NoEvent, ma[u])}
        ELSE IF prev /\ in_b /\ ~in_a THEN {Op("delete", nb, u, NoEvent, mb[u])}
        ELSE IF ~prev /\ in_a /\ ~in_b THEN {Op("create", nb, u, ma[u], NoEvent)}
        ELSE IF ~prev /\ in_b /\ ~in_a THEN {Op("create", na, u, mb[u], NoEvent)}
        ELSE IF in_a /\ in_b THEN
            IF ParseTs(ma[u]) > ParseTs(mb[u]) THEN {Op("update", nb, u, ma[u], mb[u])}
            ELSE IF ParseTs(mb[u]) > ParseTs(ma[u]) THEN {Op("update", na, u, mb[u], ma[u])}
            ELSE {}
        ELSE {}

FullAllUids(P, ma, mb) == DOMAIN P \cup DOMAIN ma \cup DOMAIN mb

FullOps(P, ma, mb, na, nb) ==
    UNION {FullOpOf(P, ma, mb, na, nb, u) : u \in FullAllUids(P, ma, mb)}

\* new_state: the uids the loop records, with the timestamp it records.
FullRecorded(P, ma, mb) ==
    {u \in FullAllUids(P, ma, mb) :
        \/ u \notin DOMAIN P /\ u \in DOMAIN ma /\ u \notin DOMAIN mb
        \/ u \notin DOMAIN P /\ u \in DOMAIN mb /\ u \notin DOMAIN ma
        \/ u \in DOMAIN ma /\ u \in DOMAIN mb}

\* Mutation of FullNewState: the timestamp of view a is recorded for a uid
\* of both views, whichever copy is newer.
FullNewState_RecordA(P, ma, mb) ==
    [u \in FullRecorded(P, ma, mb) |->
        IF u \in DOMAIN ma THEN IsoFormat(ParseTs(ma[u]))
        ELSE IsoFormat(ParseTs(mb[u]))]

FullNewState(P, ma, mb) ==
    [u \in FullRecorded(P, ma, mb) |->
        IF u \in DOMAIN ma /\ u \in DOMAIN mb
        THEN IF ParseTs(ma[u]) > ParseTs(mb[u]) THEN IsoFormat(ParseTs(ma[u]))
             ELSE IF ParseTs(mb[u]) > ParseTs(ma[u]) THEN IsoFormat(ParseTs(mb[u]))
             ELSE IsoFormat(ParseTs(ma[u]))
        ELSE IF u \in DOMAIN ma THEN IsoFormat(ParseTs(ma[u]))
        ELSE IsoFormat(ParseTs(mb[u]))]

(***************************************************************************)
(* sync_caldav_full_oneway: one-way reconcile from the source view (Busy   *)
(* events skipped) to the target view, named nt, against prior state P.    *)
(***************************************************************************)
\* Step 4: meta_src skips every source event whose SUMMARY is "Busy".
OnewayMetaSrc(src) == [u \in {v \in DOMAIN src : GetSummary(src[v]) # "Busy"} |-> src[u]]

OnewayAllUids(P, msrc, mtgt) == DOMAIN P \cup DOMAIN msrc \cup DOMAIN mtgt

\* Mutation of OnewayOpOf: a target-only uid is deleted whether or not the
\* loaded state knows it.
OnewayOpOf_DeleteUnknown(P, msrc, mtgt, nt, u) ==
    LET in_src == u \in DOMAIN msrc
        in_tgt == u \in DOMAIN mtgt
    IN  IF ~in_src /\ in_tgt THEN {Op("delete", nt, u, NoEvent, mtgt[u])}
        ELSE IF in_src /\ ~in_tgt THEN {Op("create", nt, u, msrc[u], NoEvent)}
        ELSE IF in_src /\ in_tgt /\ ParseTs(msrc[u]) > ParseTs(mtgt[u])
             THEN {Op("update", nt, u, msrc[u], mtgt[u])}
        ELSE {}

OnewayOpOf(P, msrc, mtgt, nt, u) ==
    LET in_src == u \in DOMAIN msrc
        in_tgt == u \in DOMAIN mtgt
        prev   == u \in DOMAIN P
    IN  IF prev /\ ~in_src /\ in_tgt THEN {Op("delete", nt, u, NoEvent, mtgt[u])}
        ELSE IF in_src /\ ~in_tgt THEN {Op("create", nt, u, msrc[u], NoEvent)}
        ELSE IF in_src /\ in_tgt /\ ParseTs(msrc[u]) > ParseTs(mtgt[u])
             THEN {Op("update", nt, u, msrc[u], mtgt[u])}
        ELSE {}

OnewayOps(P, src, tgt, nt) ==
    LET msrc == OnewayMetaSrc(src)
    IN  UNION {OnewayOpOf(P, msrc, tgt, nt, u) : u \in OnewayAllUids(P, msrc, tgt)}

OnewayNewState(P, src, tgt) ==
    LET msrc == OnewayMetaSrc(src)
    IN  [u \in DOMAIN msrc |->
            IF u \in DOMAIN tgt
            THEN IF ParseTs(msrc[u]) > ParseTs(tgt[u]) THEN IsoFormat(ParseTs(msrc[u]))
                 ELSE IsoFormat(ParseTs(tgt[u]))
            ELSE IsoFormat(ParseTs(msrc[u]))]

(***************************************************************************)
(* sync_caldav_busy: busy mirror from the source view A to the target view *)
(* B, with the loaded state st and the wall clock now.                     *)
(***************************************************************************)
\* _build_busy_ical: UID, DTSTAMP = now, DTSTART, DTEND, SUMMARY "Busy";
\* the placeholder has no LAST-MODIFIED.
BuildBusyIcal(u, dtstart, dtend, now) == Ev(0, now, "Busy", dtstart, dtend)

\* Mutation of UpdateSrcIcal: DTEND is left as it was.
UpdateSrcIcal_KeepEnd(raw, new_start, new_end) == [raw EXCEPT !.dtstart = new_start]

\* _update_src_ical: DTSTART and DTEND replaced, every other field kept.
UpdateSrcIcal(raw, new_start, new_end) ==
    [raw EXCEPT !.dtstart = new_start, !.dtend = new_end]

\* Step 4b: the target view split on SUMMARY.
RealMeta(B) == [u \in {v \in DOMAIN B : GetSummary(B[v]) # "Busy"} |-> B[u]]

BusyMeta(B) == [u \in {v \in DOMAIN B : GetSummary(B[v]) = "Busy"} |-> B[u]]

\* The "NEW BLOCK": uids that were real events of B at the last run and are
\* not in A now; the real event still on B is deleted there.
DeletedOnA(st, A) == st.real_uids \ DOMAIN A

BusyOps1(st, A, B) ==
    {Op("delete", "B", u, NoEvent, B[u]) : u \in DeletedOnA(st, A) \cap DOMAIN RealMeta(B)}

\* Step 5: real events of the last run that are gone from B; deleted in A.
DeletedReal(st, B) == st.real_uids \ DOMAIN RealMeta(B)

BusyOps5(st, A, B) ==
    {Op("delete", "A", u, NoEvent, A[u]) : u \in DeletedReal(st, B) \cap DOMAIN A}

\* Step 6: placeholders of the last run that are gone from B; deleted in A
\* unless step 5 has already popped the uid from src_meta.
DeletedBusy(st, B) == st.busy_uids \ DOMAIN BusyMeta(B)

BusyOps6(st, A, B) ==
    {Op("delete", "A", u, NoEvent, A[u]) :
        u \in DeletedBusy(st, B) \cap (DOMAIN A \ DeletedReal(st, B))}

\* src_meta after the pops of steps 5 and 6.
SrcMeta(st, A, B) ==
    [u \in DOMAIN A \ (DeletedReal(st, B) \cup DeletedBusy(st, B)) |-> A[u]]

\* tombstones after steps "NEW BLOCK", 5 and 6.
TombstonesBeforeLoop(st, A, B) ==
    st.tombstones \cup DeletedOnA(st, A) \cup DeletedReal(st, B) \cup DeletedBusy(st, B)

BusyAllUids(st, A, B) ==
    DOMAIN st.synced \cup DOMAIN SrcMeta(st, A, B) \cup DOMAIN BusyMeta(B)

\* Mutation of BusyBranch: a placeholder whose uid is not in A is deleted
\* whether or not the loaded synced map knows the uid.
BusyBranch_DeleteUnsynced(st, A, B, u) ==
    LET src     == SrcMeta(st, A, B)
        busy    == BusyMeta(B)
        in_src  == u \in DOMAIN src
        in_busy == u \in DOMAIN busy
    IN  IF u \in DOMAIN RealMeta(B) THEN "real"
        ELSE IF ~in_src /\ in_busy THEN "delete_busy"
        ELSE IF in_src /\ ~in_busy THEN
            IF u \in TombstonesBeforeLoop(st, A, B) THEN "tombstoned" ELSE "create"
        ELSE IF in_src /\ in_busy THEN
            IF ParseTs(src[u]) > ParseTs(busy[u]) THEN "update_b"
            ELSE IF ParseTs(busy[u]) > ParseTs(src[u]) THEN "update_a"
            ELSE "unchanged"
        ELSE "gone"

\* Step 7, the branch the loop body takes for one uid.
BusyBranch(st, A, B, u) ==
    LET src     == SrcMeta(st, A, B)
        busy    == BusyMeta(B)
        in_src  == u \in DOMAIN src
        in_busy == u \in DOMAIN busy
    IN  IF u \in DOMAIN RealMeta(B) THEN "real"
        ELSE IF u \in DOMAIN st.synced /\ ~in_src /\ in_busy THEN "delete_busy"
        ELSE IF in_src /\ ~in_busy THEN
            IF u \in TombstonesBeforeLoop(st, A, B) THEN "tombstoned" ELSE "create"
        ELSE IF in_src /\ in_busy THEN
            IF ParseTs(src[u]) > ParseTs(busy[u]) THEN "update_b"
            ELSE IF ParseTs(busy[u]) > ParseTs(src[u]) THEN "update_a"
            ELSE "unchanged"
        ELSE "gone"

\* Mutation of BusyOp7Of: the source event itself is written to B.
BusyOp7Of_CopyRaw(st, A, B, now, u) ==
    LET br == BusyBranch(st, A, B, u)
    IN  CASE br = "delete_busy" -> {Op("delete", "B", u, NoEvent, B[u])}
          [] br = "create" -> {Op("create", "B", u, A[u], NoEvent)}
          [] br = "update_b" -> {Op("update", "B", u, A[u], B[u])}
          [] br = "update_a" ->
                {Op("update", "A", u,
                    UpdateSrcIcal(A[u], ParseDtRange(B[u])[1], ParseDtRange(B[u])[2]),
                    A[u])}
          [] OTHER -> {}

BusyOp7Of(st, A, B, now, u) ==
    LET br == BusyBranch(st, A, B, u)
    IN  CASE br = "delete_busy" -> {Op("delete", "B", u, NoEvent, B[u])}
          [] br = "create" ->
                {Op("create", "B", u,
                    BuildBusyIcal(u, ParseDtRange(A[u])[1], ParseDtRange(A[u])[2], now),
                    NoEvent)}
          [] br = "update_b" ->
                {Op("update", "B", u,
                    BuildBusyIcal(u, ParseDtRange(A[u])[1], ParseDtRange(A[u])[2], now),
                    B[u])}
          [] br = "update_a" ->
                {Op("update", "A", u,
                    UpdateSrcIcal(A[u], ParseDtRange(B[u])[1], ParseDtRange(B[u])[2]),
                    A[u])}
          [] OTHER -> {}

BusyOps7(st, A, B, now) ==
    UNION {BusyOp7Of(st, A, B, now, u) : u \in BusyAllUids(st, A, B)}

BusyOps(st, A, B, now) ==
    BusyOps1(st, A, B) \cup BusyOps5(st, A, B) \cup BusyOps6(st, A, B)
        \cup BusyOps7(st, A, B, now)

\* new_synced / new_busy: the uids of the branches that record.
BusyRecorded(st, A, B) ==
    {u \in BusyAllUids(st, A, B) :
        BusyBranch(st, A, B, u) \in {"create", "update_b", "update_a", "unchanged"}}

BusyNewSynced(st, A, B) ==
    [u \in BusyRecorded(st, A, B) |->
        IF BusyBranch(st, A, B, u) = "update_a"
        THEN IsoFormat(ParseTs(B[u]))
        ELSE IsoFormat(ParseTs(A[u]))]

\* tombstones at step 8: the "delete_busy" branch discards its uid.
BusyNewTombstones(st, A, B) ==
    TombstonesBeforeLoop(st, A, B) \
        {u \in BusyAllUids(st, A, B) : BusyBranch(st, A, B, u) = "delete_busy"}

\* Step 8: real_uids is the set built in step 4b.
BusyNewFile(st, A, B) ==
    BusyFile(BusyNewSynced(st, A, B), BusyRecorded(st, A, B),
             BusyNewTombstones(st, A, B), DOMAIN RealMeta(B))

(***************************************************************************)
(* History of the last step, kept for stating the properties: which        *)
(* function ran, how it ended, the remote operations it issued, the state  *)
(* it had loaded, whether it directly followed a successful run of the     *)
(* same function with no external change in between (rep), the operations *)
(* that earlier run had issued (prevOps), and whether the state file holds *)
(* the same content as before the run (same), and the format of the state  *)
(* file the run found (file).  For a run in which a create raised the      *)
(* duplicate-UID signal: the create that raised (dup) and whether the run  *)
(* went on to its end (done).  For a run that directly follows an aborted  *)
(* run of the same function (a backend call raised) with no external       *)
(* change in between (retry): the operations the aborted run had applied   *)
(* (aborted).                                                              *)
(***************************************************************************)
NoLoaded == [keys |-> {}, busy |-> {}, real |-> {}, tomb |-> {}]

LoadedMap(P) == [keys |-> DOMAIN P, busy |-> {}, real |-> {}, tomb |-> {}]

LoadedBusy(st) ==
    [keys |-> DOMAIN st.synced, busy |-> st.busy_uids, real |-> st.real_uids,
     tomb |-> st.tombstones]

NoOp == [op |-> "none", cal |-> "", uid |-> 0, payload |-> NoEvent, old |-> NoEvent]

Hist(kind, outcome, ops, rep, prevOps, same, loaded, file) ==
    [kind |-> kind, outcome |-> outcome, ops |-> ops, rep |-> rep,
     prevOps |-> prevOps, same |-> same, loaded |-> loaded, file |-> file,
     dup |-> NoOp, done |-> outcome = "ok", retry |-> FALSE, aborted |-> {}]

InitLast == Hist("init", "none", {}, FALSE, {}, TRUE, NoLoaded, "none")

ExtLast == Hist("ext", "none", {}, FALSE, {}, TRUE, NoLoaded, "none")

\* The record of a run; file is the format of the state file the run found
\* at its state_path.
RunLast(kind, outcome, ops, same, loaded) ==
    [Hist(kind, outcome, ops,
          last.kind = kind /\ last.outcome = "ok",
          IF last.kind = kind /\ last.outcome = "ok" THEN last.ops ELSE {},
          same, loaded,
          IF kind = "busy" THEN busyState.fmt ELSE fullState.fmt)
        EXCEPT !.retry = last.kind = kind /\ last.outcome = "fail",
               !.aborted = IF last.kind = kind /\ last.outcome = "fail"
                           THEN last.ops ELSE {}]

\* The record of a run in which the create dup raised the duplicate-UID
\* signal (PutError); done tells whether the run went on to its persist step.
DupLast(kind, done, ops, dup, same, loaded) ==
    [RunLast(kind, "dup", ops, same, loaded) EXCEPT !.dup = dup, !.done = done]

\* The operation sets an aborted run may have applied when its operations
\* are issued in any order: any set that leaves out the operation that failed
\* (and nothing at all when a lookup or a fetch failed).
PartialOf(ops) == {S \in SUBSET ops : S # ops \/ ops = {}}

(***************************************************************************)
(* Events the codec cannot read.  _parse_ical_metadata raises ValueError   *)
(* for an event with neither LAST-MODIFIED nor DTSTAMP (the timestamp is   *)
(* not a datetime).  The loops that build the views call it for every      *)
(* fetched event, outside any try: the exception leaves the reconciler.    *)
(***************************************************************************)
Unparsable(e) == e.lastmod = 0 /\ e.dtstamp = 0

AllParse(cal) == \A u \in DOMAIN cal : ~Unparsable(cal[u])

\* sync_caldav_caldav and sync_caldav_busy parse every event of both views.
FullParses == AllParse(calA) /\ AllParse(calB)

BusyParses == AllParse(calA) /\ AllParse(calB)

\* sync_caldav_full_oneway skips a source event named "Busy" before parsing.
OnewayParses ==
    /\ \A u \in DOMAIN calB : GetSummary(calB[u]) = "Busy" \/ ~Unparsable(calB[u])
    /\ AllParse(calA)

(***************************************************************************)
(* sync_caldav_caldav(client B, client A, state_path = B__A__full.json)    *)
(***************************************************************************)
FullLoaded == LoadFull(fullState).state

FullPlanned == FullOps(FullLoaded, calB, calA, "B", "A")

\* The run completes: every operation applied, then the state file written.
FullOkEff ==
    /\ FullParses
    /\ LoadFull(fullState).ok
    /\ calA' = ApplyOps(calA, "A", FullPlanned)
    /\ calB' = ApplyOps(calB, "B", FullPlanned)
    /\ fullState' = PlainFile(FullNewState(FullLoaded, calB, calA))
    /\ last' = RunLast("full", "ok", FullPlanned, fullState' = fullState,
                       LoadedMap(FullLoaded))
    /\ UNCHANGED <<busyState, clock, tombed>>

\* A backend call raises: the operations before it are applied, no state write.
FullFailEff ==
    /\ FullParses
    /\ LoadFull(fullState).ok
    /\ \E S \in PartialOf(FullPlanned) :
          /\ calA' = ApplyOps(calA, "A", S)
          /\ calB' = ApplyOps(calB, "B", S)
          /\ last' = RunLast("full", "fail", S, TRUE, LoadedMap(FullLoaded))
    /\ UNCHANGED <<busyState, fullState, clock, tombed>>

\* Step 1 raises: nothing is fetched, issued or written.
FullLoadErrorEff ==
    /\ ~LoadFull(fullState).ok
    /\ last' = RunLast("full", "load_error", {}, TRUE, NoLoaded)
    /\ UNCHANGED <<calA, calB, busyState, fullState, clock, tombed>>

\* The process dies in step 5, between open(state_path, "w"), which truncates
\* the file, and the end of json.dump.
FullCrashEff ==
    /\ FullParses
    /\ LoadFull(fullState).ok
    /\ calA' = ApplyOps(calA, "A", FullPlanned)
    /\ calB' = ApplyOps(calB, "B", FullPlanned)
    /\ fullState' = CorruptFile
    /\ last' = RunLast("full", "crash", FullPlanned, fullState' = fullState,
                       LoadedMap(FullLoaded))
    /\ UNCHANGED <<busyState, clock, tombed>>

(***************************************************************************)
(* sync_caldav_full_oneway(client B, client A, state_path =                *)
(* B__A__full.json): source B, target A.                                   *)
(***************************************************************************)
OnewayLoaded == LoadOneway(fullState).state

OnewayPlanned == OnewayOps(OnewayLoaded, calB, calA, "A")

OnewayOkEff ==
    /\ OnewayParses
    /\ calA' = ApplyOps(calA, "A", OnewayPlanned)
    /\ fullState' = OnewayFile(OnewayNewState(OnewayLoaded, calB, calA))
    /\ last' = RunLast("oneway", "ok", OnewayPlanned, fullState' = fullState,
                       LoadedMap(OnewayLoaded))
    /\ UNCHANGED <<calB, busyState, clock, tombed>>

OnewayFailEff ==
    /\ OnewayParses
    /\ \E S \in PartialOf(OnewayPlanned) :
          /\ calA' = ApplyOps(calA, "A", S)
          /\ last' = RunLast("oneway", "fail", S, TRUE, LoadedMap(OnewayLoaded))
    /\ UNCHANGED <<calB, busyState, fullState, clock, tombed>>

OnewayCrashEff ==
    /\ OnewayParses
    /\ calA' = ApplyOps(calA, "A", OnewayPlanned)
    /\ fullState' = CorruptFile
    /\ last' = RunLast("oneway", "crash", OnewayPlanned, fullState' = fullState,
                       LoadedMap(OnewayLoaded))
    /\ UNCHANGED <<calB, busyState, clock, tombed>>

(***************************************************************************)
(* sync_caldav_busy(client A, client B, state_path = A__B__busy.json)      *)
(***************************************************************************)
BusyLoaded == LoadBusy(busyState).state

BusyPlanned == BusyOps(BusyLoaded, calA, calB, clock)

\* The operation sets an aborted run may have applied: the steps run in the
\* order "NEW BLOCK", 5, 6, 7; the first three iterate over a set (any
\* order), step 7 over sorted(all_uids).
BusyPartial(st, A, B, now) ==
    LET o1 == BusyOps1(st, A, B)
        o5 == BusyOps5(st, A, B)
        o6 == BusyOps6(st, A, B)
        o7 == BusyOps7(st, A, B, now)
    IN  {{}}
        \cup {S \in SUBSET o1 : S # o1}
        \cup {o1 \cup S : S \in {T \in SUBSET o5 : T # o5}}
        \cup {o1 \cup o5 \cup S : S \in {T \in SUBSET o6 : T # o6}}
        \cup {o1 \cup o5 \cup o6 \cup {o \in o7 : o.uid < k} : k \in {o.uid : o \in o7}}

BusyOkEff ==
    /\ BusyParses
    /\ LoadBusy(busyState).ok
    /\ calA' = ApplyOps(calA, "A", BusyPlanned)
    /\ calB' = ApplyOps(calB, "B", BusyPlanned)
    /\ busyState' = BusyNewFile(BusyLoaded, calA, calB)
    /\ last' = RunLast("busy", "ok", BusyPlanned, busyState' = busyState,
                       LoadedBusy(BusyLoaded))
    /\ tombed' = tombed \cup DeletedBusy(BusyLoaded, calB)
    /\ UNCHANGED <<fullState, clock>>

BusyFailEff ==
    /\ BusyParses
    /\ LoadBusy(busyState).ok
    /\ \E S \in BusyPartial(BusyLoaded, calA, calB, clock) :
          /\ calA' = ApplyOps(calA, "A", S)
          /\ calB' = ApplyOps(calB, "B", S)
          /\ last' = RunLast("busy", "fail", S, TRUE, LoadedBusy(BusyLoaded))
    /\ UNCHANGED <<busyState, fullState, clock, tombed>>

BusyLoadErrorEff ==
    /\ ~LoadBusy(busyState).ok
    /\ last' = RunLast("busy", "load_error", {}, TRUE, NoLoaded)
    /\ UNCHANGED <<calA, calB, busyState, fullState, clock, tombed>>

BusyCrashEff ==
    /\ BusyParses
    /\ LoadBusy(busyState).ok
    /\ calA' = ApplyOps(calA, "A", BusyPlanned)
    /\ calB' = ApplyOps(calB, "B", BusyPlanned)
    /\ busyState' = CorruptFile
    /\ last' = RunLast("busy", "crash", BusyPlanned, busyState' = busyState,
                       LoadedBusy(BusyLoaded))
    /\ UNCHANGED <<fullState, clock, tombed>>

\* _parse_ical_metadata raises while a view is built: the run ends before
\* the reconcile step, with nothing issued and nothing written.
FullParseErrorEff ==
    /\ LoadFull(fullState).ok
    /\ ~FullParses
    /\ last' = RunLast("full", "parse_error", {}, TRUE, LoadedMap(FullLoaded))
    /\ UNCHANGED <<calA, calB, busyState, fullState, clock, tombed>>

OnewayParseErrorEff ==
    /\ ~OnewayParses
    /\ last' = RunLast("oneway", "parse_error", {}, TRUE, LoadedMap(OnewayLoaded))
    /\ UNCHANGED <<calA, calB, busyState, fullState, clock, tombed>>

BusyParseErrorEff ==
    /\ LoadBusy(busyState).ok
    /\ ~BusyParses
    /\ last' = RunLast("busy", "parse_error", {}, TRUE, LoadedBusy(BusyLoaded))
    /\ UNCHANGED <<calA, calB, busyState, fullState, clock, tombed>>

(***************************************************************************)
(* A create raises the duplicate-UID signal (caldav PutError): another      *)
(* client has stored event e under the uid after the run fetched the       *)
(* calendar.                                                               *)
(***************************************************************************)
Creates(ops) == {o \in ops : o.op = "create"}

\* sync_caldav_busy, except PutError: the event of the fetched target view
\* with the uid of the failed create is updated with the placeholder.
BusyFallbackOps(B, o) ==
    IF o.uid \in DOMAIN B
    THEN {Op("update", "B", o.uid, o.payload, B[o.uid])}
    ELSE {}

\* sync_caldav_busy catches the signal, runs the fallback, records the uid
\* and goes on to the end of the run.
BusyDupEff(events) ==
    /\ BusyParses
    /\ LoadBusy(busyState).ok
    /\ \E o \in Creates(BusyPlanned), e \in events :
          LET ops == (BusyPlanned \ {o}) \cup BusyFallbackOps(calB, o)
          IN  /\ calA' = ApplyOps(calA, "A", ops)
              /\ calB' = ApplyOps(Put(calB, o.uid, e), "B", ops)
              /\ busyState' = BusyNewFile(BusyLoaded, calA, calB)
              /\ last' = DupLast("busy", TRUE, ops, o, busyState' = busyState,
                                 LoadedBusy(BusyLoaded))
    /\ tombed' = tombed \cup DeletedBusy(BusyLoaded, calB)
    /\ UNCHANGED <<fullState, clock>>

\* sync_caldav_caldav does not catch the signal: the run ends at the create,
\* with the operations issued before it applied and no state written.
FullDupEff(eventsA, eventsB) ==
    /\ FullParses
    /\ LoadFull(fullState).ok
    /\ \E o \in Creates(FullPlanned) :
          \E S \in SUBSET (FullPlanned \ {o}) :
             /\ IF o.cal = "A"
                THEN /\ \E e \in eventsA : calA' = ApplyOps(Put(calA, o.uid, e), "A", S)
                     /\ calB' = ApplyOps(calB, "B", S)
                ELSE /\ \E e \in eventsB : calB' = ApplyOps(Put(calB, o.uid, e), "B", S)
                     /\ calA' = ApplyOps(calA, "A", S)
             /\ last' = DupLast("full", FALSE, S, o, TRUE, LoadedMap(FullLoaded))
    /\ UNCHANGED <<busyState, fullState, clock, tombed>>

\* sync_caldav_full_oneway does not catch the signal either.
OnewayDupEff(eventsA) ==
    /\ OnewayParses
    /\ \E o \in Creates(OnewayPlanned) :
          \E S \in SUBSET (OnewayPlanned \ {o}), e \in eventsA :
             /\ calA' = ApplyOps(Put(calA, o.uid, e), "A", S)
             /\ last' = DupLast("oneway", FALSE, S, o, TRUE, LoadedMap(OnewayLoaded))
    /\ UNCHANGED <<calB, busyState, fullState, clock, tombed>>

(***************************************************************************)
(* The environment: users and other clients edit the two calendars at any  *)
(* time, and time passes.                                                  *)
(***************************************************************************)
Slots == {<<1, 2>>, <<3, 4>>}

\* Events other clients store: they carry LAST-MODIFIED and DTSTAMP.
UserEvents(stamps, summaries, slots) ==
    {Ev(t, 1, s, sl[1], sl[2]) : t \in stamps, s \in summaries, sl \in slots}

ExtPutA(uids, events) ==
    /\ \E u \in uids, e \in events : calA' = Put(calA, u, e)
    /\ last' = ExtLast
    /\ UNCHANGED <<calB, busyState, fullState, clock, pc, wrote, tombed, seenA>>

ExtPutB(uids, events) ==
    /\ \E u \in uids, e \in events : calB' = Put(calB, u, e)
    /\ last' = ExtLast
    /\ UNCHANGED <<calA, busyState, fullState, clock, pc, wrote, tombed, seenA>>

ExtDelA ==
    /\ \E u \in DOMAIN calA : calA' = Remove(calA, u)
    /\ last' = ExtLast
    /\ UNCHANGED <<calB, busyState, fullState, clock, pc, wrote, tombed, seenA>>

ExtDelB ==
    /\ \E u \in DOMAIN calB : calB' = Remove(calB, u)
    /\ last' = ExtLast
    /\ UNCHANGED <<calA, busyState, fullState, clock, pc, wrote, tombed, seenA>>

Tick(maxClock) ==
    /\ clock < maxClock
    /\ clock' = clock + 1
    /\ UNCHANGED <<calA, calB, busyState, fullState, pc, wrote, tombed, seenA, last>>

Init ==
    /\ calA = EmptyMap
    /\ calB = EmptyMap
    /\ busyState = NoFile
    /\ fullState = NoFile
    /\ clock = 1
    /\ pc = "idle"
    /\ wrote = {}
    /\ seenA = {}
    /\ tombed = {}
    /\ last = InitLast

(***************************************************************************)
(* SpecSync: sync_caldav_caldav and sync_caldav_full_oneway run on their   *)
(* own (each call is one step), with the calendars edited in between.      *)
(***************************************************************************)
SyncEvents == UserEvents(1..MaxTs, {"Lunch", "Busy"}, {<<1, 2>>})

FullOk == FullOkEff /\ UNCHANGED <<pc, wrote, seenA>>

FullFail == FullFailEff /\ UNCHANGED <<pc, wrote, seenA>>

FullLoadError == FullLoadErrorEff /\ UNCHANGED <<pc, wrote, seenA>>

FullCrash == FullCrashEff /\ UNCHANGED <<pc, wrote, seenA>>

OnewayOk == OnewayOkEff /\ UNCHANGED <<pc, wrote, seenA>>

OnewayFail == OnewayFailEff /\ UNCHANGED <<pc, wrote, seenA>>

OnewayCrash == OnewayCrashEff /\ UNCHANGED <<pc, wrote, seenA>>

NextSync ==
    \/ ExtPutA(1..MaxUid, SyncEvents)
    \/ ExtPutB(1..MaxUid, SyncEvents)
    \/ ExtDelA
    \/ ExtDelB
    \/ FullOk
    \/ FullFail
    \/ FullLoadError
    \/ FullCrash
    \/ OnewayOk
    \/ OnewayFail
    \/ OnewayCrash

SpecSync == Init /\ [][NextSync]_vars

(***************************************************************************)
(* SpecBusy: sync_caldav_busy run on its own.                              *)
(***************************************************************************)
\* An event is stamped with the time of its last change: never later than now.
BusyEventsA == UserEvents(1..clock, {"Lunch"}, Slots)

BusyEventsB ==
    UserEvents(1..clock, {"Busy"}, Slots) \cup UserEvents(1..clock, {"Lunch"}, {<<1, 2>>})

BusyOk == BusyOkEff /\ UNCHANGED <<pc, wrote, seenA>>

BusyFail == BusyFailEff /\ UNCHANGED <<pc, wrote, seenA>>

BusyLoadError == BusyLoadErrorEff /\ UNCHANGED <<pc, wrote, seenA>>

BusyCrash == BusyCrashEff /\ UNCHANGED <<pc, wrote, seenA>>

NextBusy ==
    \/ ExtPutA(1..MaxUidBusy, BusyEventsA)
    \/ ExtPutB(1..MaxUidBusy, BusyEventsB)
    \/ ExtDelA
    \/ ExtDelB
    \/ Tick(MaxTsBusy)
    \/ BusyOk
    \/ BusyFail
    \/ BusyLoadError
    \/ BusyCrash

SpecBusy == Init /\ [][NextBusy]_vars

(***************************************************************************)
(* Spec: main() with the mappings                                          *)
(*     {source: A, target: B, mode: busy}   and                            *)
(*     {source: B, target: A, mode: full}.                                 *)
(* The BUSY mapping runs sync_caldav_busy and then, if that returned,      *)
(* sync_caldav_full_oneway; an exception of either ends the process.  The  *)
(* FULL mapping runs sync_caldav_caldav.  Each call is one step.           *)
(***************************************************************************)
\* main(): the mappings of the configuration.
Mappings ==
    {[source |-> "A", target |-> "B", mode |-> "busy"],
     [source |-> "B", target |-> "A", mode |-> "full"]}

\* main(): state_base / f"{acct_src}__{cal_src}__{acct_tgt}__{cal_tgt}__{suffix}.json"
\* (each account has one calendar, so the account names the endpoint).
StatePath(src, tgt, suffix) == <<src, tgt, suffix>>

\* main(): the reconciler calls one mapping makes, each with the function
\* called, its source, its target and its state_path.
Executions(m) ==
    IF m.mode = "full"
    THEN {[fn |-> "full", source |-> m.source, target |-> m.target,
           path |-> StatePath(m.source, m.target, "full")]}
    ELSE {[fn |-> "busy", source |-> m.source, target |-> m.target,
           path |-> StatePath(m.source, m.target, "busy")],
          [fn |-> "oneway", source |-> m.target, target |-> m.source,
           path |-> StatePath(m.target, m.source, "full")]}

AllExecutions == UNION {Executions(m) : m \in Mappings}

\* The format each reconciler writes at its state_path.
FmtOf(fn) ==
    CASE fn = "full" -> "plain"
      [] fn = "oneway" -> "oneway"
      [] fn = "busy" -> "busy"

MainEventsA == UserEvents(1..clock, {"Lunch"}, {<<1, 2>>})

MainEventsB == UserEvents(1..clock, {"Busy", "Lunch"}, {<<1, 2>>})

Changed(old, new, name) == IF old # new THEN {name} ELSE {}

MainBusyOk ==
    /\ pc = "idle"
    /\ BusyOkEff
    /\ pc' = "oneway"
    /\ wrote' = Changed(busyState, busyState', "busy")
    /\ seenA' = seenA \cup DOMAIN calA

MainBusyFail ==
    /\ pc = "idle"
    /\ BusyFailEff
    /\ pc' = "idle"
    /\ wrote' = {}
    /\ seenA' = seenA \cup DOMAIN calA

MainBusyLoadError ==
    /\ pc = "idle"
    /\ BusyLoadErrorEff
    /\ pc' = "idle"
    /\ wrote' = {}
    /\ seenA' = seenA \cup DOMAIN calA

MainBusyCrash ==
    /\ pc = "idle"
    /\ BusyCrashEff
    /\ pc' = "idle"
    /\ wrote' = Changed(busyState, busyState', "busy")
    /\ seenA' = seenA \cup DOMAIN calA

MainOnewayOk ==
    /\ pc = "oneway"
    /\ OnewayOkEff
    /\ pc' = "idle"
    /\ wrote' = wrote \cup Changed(fullState, fullState', "full")
    /\ seenA' = seenA \cup DOMAIN calA

MainOnewayFail ==
    /\ pc = "oneway"
    /\ OnewayFailEff
    /\ pc' = "idle"
    /\ wrote' = wrote
    /\ seenA' = seenA \cup DOMAIN calA

MainOnewayCrash ==
    /\ pc = "oneway"
    /\ OnewayCrashEff
    /\ pc' = "idle"
    /\ wrote' = wrote \cup Changed(fullState, fullState', "full")
    /\ seenA' = seenA \cup DOMAIN calA

MainFullOk ==
    /\ pc = "idle"
    /\ FullOkEff
    /\ pc' = "idle"
    /\ wrote' = Changed(fullState, fullState', "full")
    /\ UNCHANGED seenA

MainFullFail ==
    /\ pc = "idle"
    /\ FullFailEff
    /\ pc' = "idle"
    /\ wrote' = {}
    /\ UNCHANGED seenA

MainFullLoadError ==
    /\ pc = "idle"
    /\ FullLoadErrorEff
    /\ pc' = "idle"
    /\ wrote' = {}
    /\ UNCHANGED seenA

MainFullCrash ==
    /\ pc = "idle"
    /\ FullCrashEff
    /\ pc' = "idle"
    /\ wrote' = Changed(fullState, fullState', "full")
    /\ UNCHANGED seenA

MainBusyDup ==
    /\ pc = "idle"
    /\ BusyDupEff(MainEventsB)
    /\ pc' = "oneway"
    /\ wrote' = Changed(busyState, busyState', "busy")
    /\ seenA' = seenA \cup DOMAIN calA

MainOnewayDup ==
    /\ pc = "oneway"
    /\ OnewayDupEff(MainEventsA)
    /\ pc' = "idle"
    /\ wrote' = wrote
    /\ seenA' = seenA \cup DOMAIN calA

MainFullDup ==
    /\ pc = "idle"
    /\ FullDupEff(MainEventsA, MainEventsB)
    /\ pc' = "idle"
    /\ wrote' = {}
    /\ UNCHANGED seenA

Next ==
    \/ ExtPutA(1..MaxUidMain, MainEventsA)
    \/ ExtPutB(1..MaxUidMain, MainEventsB)
    \/ ExtDelA
    \/ ExtDelB
    \/ Tick(MaxTsMain)
    \/ MainBusyOk
    \/ MainBusyFail
    \/ MainBusyLoadError
    \/ MainBusyCrash
    \/ MainOnewayOk
    \/ MainOnewayFail
    \/ MainOnewayCrash
    \/ MainFullOk
    \/ MainFullFail
    \/ MainFullLoadError
    \/ MainFullCrash
    \/ MainBusyDup
    \/ MainOnewayDup
    \/ MainFullDup

Spec == Init /\ [][Next]_vars

(***************************************************************************)
(* SpecConfig: one invocation of main() over a list of mappings, some of   *)
(* which may name an account that is not configured or a mode main() does  *)
(* not know.  pc is the configuration, the index of the for loop and the   *)
(* stage: "loop" at the head of the loop, "oneway" between the stages of a *)
(* BUSY mapping, "done" after the last mapping, "exit" after sys.exit(1),  *)
(* "raised" after an exception left a reconciler.  wrote collects the I/O  *)
(* performed: "fetch" (backend reads), "mutation", "state" (a state file   *)
(* written).                                                               *)
(***************************************************************************)
Accounts == {"A", "B"}

\* The valid mappings, one that names an account without client and one with
\* a mode main() does not know.
MappingPool ==
    Mappings \cup {[source |-> "X", target |-> "A", mode |-> "full"],
                   [source |-> "A", target |-> "B", mode |-> "mirror"]}

Configs == UNION {[1..n -> MappingPool] : n \in 0..MaxMappings}

\* main(): acct_src not in clients or acct_tgt not in clients
UnknownAccount(m) == m.source \notin Accounts \/ m.target \notin Accounts

UnsupportedMode(m) == m.mode \notin {"full", "busy"}

CfgEvents == UserEvents({1}, {"Lunch"}, {<<1, 2>>})

InitConfig ==
    /\ calA = EmptyMap
    /\ calB = EmptyMap
    /\ busyState = NoFile
    /\ fullState = NoFile
    /\ clock = 1
    /\ pc \in {[cfg |-> c, i |-> 1, stage |-> "loop"] : c \in Configs}
    /\ wrote = {}
    /\ seenA = {}
    /\ tombed = {}
    /\ last = InitLast

\* The mapping the loop is at, when it is at one.
AtMapping == pc.stage = "loop" /\ pc.i <= Len(pc.cfg)

Goto(stage) == pc' = [pc EXCEPT !.stage = stage]

NextMapping == pc' = [pc EXCEPT !.i = pc.i + 1, !.stage = "loop"]

\* The I/O of a run that issued the operations ops.
IoOf(ops, persisted) ==
    {"fetch"} \cup (IF ops # {} THEN {"mutation"} ELSE {})
        \cup (IF persisted THEN {"state"} ELSE {})

\* if not mappings: sys.exit(1)
CfgNoMappings ==
    /\ pc.stage = "loop"
    /\ Len(pc.cfg) = 0
    /\ Goto("exit")
    /\ UNCHANGED <<calA, calB, busyState, fullState, clock, wrote, tombed, seenA, last>>

CfgUnknownAccount ==
    /\ AtMapping
    /\ UnknownAccount(pc.cfg[pc.i])
    /\ Goto("exit")
    /\ UNCHANGED <<calA, calB, busyState, fullState, clock, wrote, tombed, seenA, last>>

CfgUnsupportedMode ==
    /\ AtMapping
    /\ ~UnknownAccount(pc.cfg[pc.i])
    /\ UnsupportedMode(pc.cfg[pc.i])
    /\ Goto("exit")
    /\ UNCHANGED <<calA, calB, busyState, fullState, clock, wrote, tombed, seenA, last>>

AtMode(mode) ==
    /\ AtMapping
    /\ ~UnknownAccount(pc.cfg[pc.i])
    /\ pc.cfg[pc.i].mode = mode

CfgFullOk ==
    /\ AtMode("full")
    /\ FullOkEff
    /\ NextMapping
    /\ wrote' = wrote \cup IoOf(FullPlanned, TRUE)
    /\ UNCHANGED seenA

CfgFullFail ==
    /\ AtMode("full")
    /\ FullFailEff
    /\ Goto("raised")
    /\ wrote' = wrote \cup IoOf(last'.ops, FALSE)
    /\ UNCHANGED seenA

CfgFullLoadError ==
    /\ AtMode("full")
    /\ FullLoadErrorEff
    /\ Goto("raised")
    /\ wrote' = wrote
    /\ UNCHANGED seenA

CfgBusyOk ==
    /\ AtMode("busy")
    /\ BusyOkEff
    /\ Goto("oneway")
    /\ wrote' = wrote \cup IoOf(BusyPlanned, TRUE)
    /\ UNCHANGED seenA

CfgBusyFail ==
    /\ AtMode("busy")
    /\ BusyFailEff
    /\ Goto("raised")
    /\ wrote' = wrote \cup IoOf(last'.ops, FALSE)
    /\ UNCHANGED seenA

CfgOnewayOk ==
    /\ pc.stage = "oneway"
    /\ OnewayOkEff
    /\ NextMapping
    /\ wrote' = wrote \cup IoOf(OnewayPlanned, TRUE)
    /\ UNCHANGED seenA

CfgOnewayFail ==
    /\ pc.stage = "oneway"
    /\ OnewayFailEff
    /\ Goto("raised")
    /\ wrote' = wrote \cup IoOf(last'.ops, FALSE)
    /\ UNCHANGED seenA

\* print("All sync operations completed.")
CfgDone ==
    /\ pc.stage = "loop"
    /\ Len(pc.cfg) > 0
    /\ pc.i > Len(pc.cfg)
    /\ Goto("done")
    /\ UNCHANGED <<calA, calB, busyState, fullState, clock, wrote, tombed, seenA, last>>

NextConfig ==
    \/ ExtPutA(1..MaxUidCfg, CfgEvents)
    \/ ExtPutB(1..MaxUidCfg, CfgEvents)
    \/ CfgNoMappings
    \/ CfgUnknownAccount
    \/ CfgUnsupportedMode
    \/ CfgFullOk
    \/ CfgFullFail
    \/ CfgFullLoadError
    \/ CfgBusyOk
    \/ CfgBusyFail
    \/ CfgOnewayOk
    \/ CfgOnewayFail
    \/ CfgDone

SpecConfig == InitConfig /\ [][NextConfig]_vars

(***************************************************************************)
(* SpecCodec: the three reconcilers run on their own over calendars that   *)
(* may hold an event the codec cannot read.                                *)
(***************************************************************************)
\* An event with no LAST-MODIFIED and no DTSTAMP.
BrokenEvent == Ev(0, 0, "Lunch", 1, 2)

CodecEvents == UserEvents({1}, {"Lunch"}, {<<1, 2>>}) \cup {BrokenEvent}

CodecFullParseError == FullParseErrorEff /\ UNCHANGED <<pc, wrote, seenA>>

CodecOnewayParseError == OnewayParseErrorEff /\ UNCHANGED <<pc, wrote, seenA>>

CodecBusyParseError == BusyParseErrorEff /\ UNCHANGED <<pc, wrote, seenA>>

NextCodec ==
    \/ ExtPutA(1..MaxUidCodec, CodecEvents)
    \/ ExtPutB(1..MaxUidCodec, CodecEvents)
    \/ ExtDelA
    \/ ExtDelB
    \/ FullOk
    \/ CodecFullParseError
    \/ FullLoadError
    \/ OnewayOk
    \/ CodecOnewayParseError
    \/ BusyOk
    \/ CodecBusyParseError

SpecCodec == Init /\ [][NextCodec]_vars

(***************************************************************************)
(* SpecCollide: one run of a reconciler over fetched lists in which two    *)
(* events may carry the same uid.  Here calA and calB are the lists        *)
(* fetch_events returns, in the order returned: sequences of               *)
(* [uid, ev].  The loops that build the views assign meta[uid] for every   *)
(* element, so the last event of a uid is the one the view keeps, and the  *)
(* operations of the run go to the url of that event.  pc becomes          *)
(* "collision" or "clean" after the run, by what the fetched lists held.   *)
(* The split target views of sync_caldav_busy are modelled for a target    *)
(* list without collision only.                                            *)
(***************************************************************************)
RawLists ==
    LET elems == {[uid |-> u, ev |-> e] : u \in 1..MaxUidCollide,
                                          e \in UserEvents(1..2, {"Lunch"}, {<<1, 2>>})}
    IN  UNION {[1..n -> elems] : n \in 0..MaxFetched}

HasCollision(raw) ==
    \E i, j \in 1..Len(raw) : i # j /\ raw[i].uid = raw[j].uid

\* The index of the event that meta[uid] holds after the loop.
LastIndex(raw, u) ==
    CHOOSE i \in 1..Len(raw) :
        raw[i].uid = u /\ \A j \in (i + 1)..Len(raw) : raw[j].uid # u

\* meta = {}; for e in events: meta[uid] = ...
BuildMeta(raw) ==
    [u \in {raw[i].uid : i \in 1..Len(raw)} |-> raw[LastIndex(raw, u)].ev]

RECURSIVE AppendCreates(_, _, _)
AppendCreates(raw, creates, u) ==
    IF u > MaxUidCollide THEN raw
    ELSE IF \E o \in creates : o.uid = u
         THEN AppendCreates(
                Append(raw, [uid |-> u, ev |-> (CHOOSE o \in creates : o.uid = u).payload]),
                creates, u + 1)
         ELSE AppendCreates(raw, creates, u + 1)

\* The client calls applied to a calendar that holds the list raw: an update
\* or a delete goes to the url of the event the view kept.
ApplyOpsRaw(raw, name, ops) ==
    LET mine == {o \in ops : o.cal = name}
        gone == [uid |-> 0, ev |-> NoEvent]
        step == [i \in 1..Len(raw) |->
                    IF i = LastIndex(raw, raw[i].uid)
                       /\ \E o \in mine : o.uid = raw[i].uid /\ o.op # "create"
                    THEN LET o == CHOOSE x \in mine : x.uid = raw[i].uid /\ x.op # "create"
                         IN  IF o.op = "delete" THEN gone
                             ELSE [uid |-> o.uid, ev |-> o.payload]
                    ELSE raw[i]]
        kept == SelectSeq(step, LAMBDA x : x.uid # 0)
    IN  AppendCreates(kept, {o \in mine : o.op = "create"}, 1)

CollideFiles ==
    {NoFile}
        \cup {PlainFile([u \in S |-> IsoFormat(1)]) : S \in SUBSET (1..MaxUidCollide)}
        \cup {OnewayFile([u \in S |-> IsoFormat(1)]) : S \in SUBSET (1..MaxUidCollide)}

InitCollide ==
    /\ calA \in RawLists
    /\ calB \in RawLists
    /\ busyState = NoFile
    /\ fullState \in CollideFiles
    /\ clock = 2
    /\ pc = "idle"
    /\ wrote = {}
    /\ seenA = {}
    /\ tombed = {}
    /\ last = InitLast

Collided == IF HasCollision(calA) \/ HasCollision(calB) THEN "collision" ELSE "clean"

CollideFull ==
    /\ pc = "idle"
    /\ LoadFull(fullState).ok
    /\ LET ma  == BuildMeta(calB)
           mb  == BuildMeta(calA)
           ops == FullOps(FullLoaded, ma, mb, "B", "A")
       IN  /\ calA' = ApplyOpsRaw(calA, "A", ops)
           /\ calB' = ApplyOpsRaw(calB, "B", ops)
           /\ fullState' = PlainFile(FullNewState(FullLoaded, ma, mb))
           /\ last' = RunLast("full", "ok", ops, fullState' = fullState,
                              LoadedMap(FullLoaded))
           /\ wrote' = IoOf(ops, TRUE)
           /\ UNCHANGED seenA
    /\ pc' = Collided
    /\ UNCHANGED <<busyState, clock, tombed>>

CollideOneway ==
    /\ pc = "idle"
    /\ LET src == BuildMeta(SelectSeq(calB, LAMBDA x : GetSummary(x.ev) # "Busy"))
           tgt == BuildMeta(calA)
           ops == OnewayOps(OnewayLoaded, src, tgt, "A")
       IN  /\ calA' = ApplyOpsRaw(calA, "A", ops)
           /\ fullState' = OnewayFile(OnewayNewState(OnewayLoaded, src, tgt))
           /\ last' = RunLast("oneway", "ok", ops, fullState' = fullState,
                              LoadedMap(OnewayLoaded))
           /\ wrote' = IoOf(ops, TRUE)
           /\ UNCHANGED seenA
    /\ pc' = Collided
    /\ UNCHANGED <<calB, busyState, clock, tombed>>

CollideBusy ==
    /\ pc = "idle"
    /\ ~HasCollision(calB)
    /\ LoadBusy(busyState).ok
    /\ LET A   == BuildMeta(calA)
           B   == BuildMeta(calB)
           ops == BusyOps(BusyLoaded, A, B, clock)
       IN  /\ calA' = ApplyOpsRaw(calA, "A", ops)
           /\ calB' = ApplyOpsRaw(calB, "B", ops)
           /\ busyState' = BusyNewFile(BusyLoaded, A, B)
           /\ last' = RunLast("busy", "ok", ops, busyState' = busyState,
                              LoadedBusy(BusyLoaded))
           /\ wrote' = IoOf(ops, TRUE)
           /\ UNCHANGED seenA
    /\ pc' = Collided
    /\ UNCHANGED <<fullState, clock, tombed>>

NextCollide ==
    \/ CollideFull
    \/ CollideOneway
    \/ CollideBusy

SpecCollide == InitCollide /\ [][NextCollide]_vars

(***************************************************************************)
(* SpecOrder: sync_caldav_caldav and sync_caldav_busy run on their own,    *)
(* with the order of their client calls recorded: wrote holds the          *)
(* operations of the last run as the sequence in which they were issued.   *)
(* sync_caldav_caldav issues the operation of a uid when its loop reaches  *)
(* the uid, and the loop runs over a set (for uid in all_uids): the        *)
(* iteration order of a set of strings is not fixed.  sync_caldav_busy     *)
(* runs its "NEW BLOCK", then step 5, then step 6, each over a set, then   *)
(* the loop of step 7 over sorted(all_uids).                               *)
(***************************************************************************)
\* The sequences that issue every operation of ops once.
IssueOrders(ops) ==
    {s \in [1..Cardinality(ops) -> ops] :
        \A i, j \in 1..Cardinality(ops) : i # j => s[i] # s[j]}

\* for uid in sorted(all_uids): the operations in ascending order of uid.
SortedByUid(ops) ==
    CHOOSE s \in IssueOrders(ops) :
        \A i, j \in 1..Cardinality(ops) : i < j => s[i].uid < s[j].uid

OrderFull ==
    /\ FullOkEff
    /\ wrote' \in IssueOrders(FullPlanned)
    /\ UNCHANGED <<pc, seenA>>

OrderBusy ==
    /\ BusyOkEff
    /\ \E s1 \in IssueOrders(BusyOps1(BusyLoaded, calA, calB)),
          s5 \in IssueOrders(BusyOps5(BusyLoaded, calA, calB)),
          s6 \in IssueOrders(BusyOps6(BusyLoaded, calA, calB)) :
          wrote' = s1 \o s5 \o s6
                      \o SortedByUid(BusyOps7(BusyLoaded, calA, calB, clock))
    /\ UNCHANGED <<pc, seenA>>

NextOrder ==
    \/ ExtPutA(1..MaxUidOrder, CfgEvents)
    \/ ExtPutB(1..MaxUidOrder, CfgEvents)
    \/ ExtDelA
    \/ ExtDelB
    \/ Tick(MaxTsOrder)
    \/ OrderFull
    \/ OrderBusy

SpecOrder == Init /\ [][NextOrder]_vars

(***************************************************************************)
(*                              PROPERTIES                                 *)
(***************************************************************************)
Deletes(ops) == {o \in ops : o.op = "delete"}

Writes(ops) == {o \in ops : o.op \in {"create", "update"}}

OnCal(ops, name) == {o \in ops : o.cal = name}

\* C1: idempotence of FULL and FULL_ONEWAY.  A successful run of
\* sync_caldav_caldav or of sync_caldav_full_oneway that directly follows a
\* successful run of the same function, with no external change to A or B in
\* between, issues no create, update or delete and persists the state the
\* first run persisted; equivalently, in the state a successful run leaves,
\* the plan of the next run is empty and its next state is the file's content.
C1_IdempotentFullAndOneway ==
    /\ (last.kind \in {"full", "oneway"} /\ last.outcome = "ok" /\ last.rep)
          => (last.ops = {} /\ last.same)
    /\ (last.kind = "full" /\ last.outcome = "ok")
          => /\ FullPlanned = {}
             /\ PlainFile(FullNewState(FullLoaded, calB, calA)) = fullState
    /\ (last.kind = "oneway" /\ last.outcome = "ok")
          => /\ OnewayPlanned = {}
             /\ OnewayFile(OnewayNewState(OnewayLoaded, calB, calA)) = fullState

\* C1 witness: a second successful FULL run after a first one that issued
\* operations.
C1_Witness ==
    /\ last.kind = "full"
    /\ last.outcome = "ok"
    /\ last.rep
    /\ last.prevOps # {}

\* C2: idempotence of BUSY.  A successful run of sync_caldav_busy that
\* directly follows a successful run of it which
\* created or rebuilt a placeholder on B, or patched A through the feedback
\* path, with no external change to A or B in between, issues no operation on
\* A or B and persists an identical state.
C2_IdempotentBusy ==
    (last.kind = "busy" /\ last.outcome = "ok" /\ last.rep /\ Writes(last.prevOps) # {})
        => (last.ops = {} /\ last.same)

\* C3: convergence in FULL mode.  After a successful run of
\* sync_caldav_caldav (hence after at most two) the two calendars hold the
\* same uids with the same timestamp per uid, and the keys of the persisted
\* state are that common uid set.
C3_ConvergedAfterFull ==
    (last.kind = "full" /\ last.outcome = "ok")
        => /\ DOMAIN calA = DOMAIN calB
           /\ \A u \in DOMAIN calA : ParseTs(calA[u]) = ParseTs(calB[u])
           /\ fullState.fmt = "plain"
           /\ DOMAIN fullState.entries = DOMAIN calA

\* C3 witness: a successful FULL run that created, updated and deleted its way
\* to two equal, non-empty calendars.
C3_Witness ==
    /\ last.kind = "full"
    /\ last.outcome = "ok"
    /\ Deletes(last.ops) # {}
    /\ Writes(last.ops) # {}
    /\ DOMAIN calA # {}

\* A Busy placeholder for uid u is on the target.
HasBusy(cal, u) == u \in DOMAIN cal /\ GetSummary(cal[u]) = "Busy"

\* The uids whose placeholder was missing from the B that the last run fetched:
\* no placeholder now, and the run deleted none.
PlaceholderWasMissing(u) ==
    /\ ~HasBusy(calB, u)
    /\ ~\E o \in OnCal(Deletes(last.ops), "B") : o.uid = u /\ GetSummary(o.old) = "Busy"

\* C4: tombstone resurrection-resistance in BUSY mode.  (1) A successful run
\* that loaded uid u in busy_uids and found no placeholder for u on B leaves u
\* in tombstones and not in A.  (2) Neither that run nor any later run creates
\* a placeholder on B for a uid tombstoned that way.  (3) In the state a
\* tombstoning run leaves, the next run (A and B unchanged) issues no
\* operation.
C4_TombstoneResistance ==
    /\ (last.kind = "busy" /\ last.outcome = "ok")
          => \A u \in last.loaded.busy :
                PlaceholderWasMissing(u)
                    => (u \in busyState.tombstones /\ u \notin DOMAIN calA)
    /\ (last.kind = "busy")
          => \A o \in OnCal(last.ops, "B") : o.op = "create" => o.uid \notin tombed
    /\ (last.kind = "busy" /\ last.outcome = "ok"
            /\ busyState.tombstones \ last.loaded.tomb # {})
          => BusyPlanned = {}

\* C5: real-event protection in BUSY mode.  Every operation a run of
\* sync_caldav_busy issues on B is a create of a uid B did not hold, or an
\* update or delete of an event whose SUMMARY is "Busy".
C5_RealEventProtection ==
    (last.kind = "busy")
        => \A o \in OnCal(last.ops, "B") :
              o.old = NoEvent \/ GetSummary(o.old) = "Busy"

\* C6: deletion requires prior presence in FULL_ONEWAY.  Every uid a run of
\* sync_caldav_full_oneway deletes from the target is a key of the state it
\* loaded; a run that finds no file tagged full_oneway plans no delete; and a
\* uid that is only on the target and not in the loaded state gets no
\* operation and no entry in the next state.
C6_OnewayDeleteNeedsPrior ==
    /\ (last.kind = "oneway")
          => /\ \A o \in Deletes(last.ops) : o.uid \in last.loaded.keys
             /\ \A o \in last.ops : o.cal = "A"
    /\ (fullState.fmt # "oneway") => Deletes(OnewayPlanned) = {}
    /\ \A u \in DOMAIN calA :
          (u \notin DOMAIN OnewayMetaSrc(calB) /\ u \notin DOMAIN OnewayLoaded)
              => /\ ~\E o \in OnewayPlanned : o.uid = u
                 /\ u \notin DOMAIN OnewayNewState(OnewayLoaded, calB, calA)

\* C6 witness: a one-way run deleted a target event, with another target
\* event that it left alone.
C6_Witness ==
    /\ last.kind = "oneway"
    /\ last.outcome = "ok"
    /\ Deletes(last.ops) # {}
    /\ \E u \in DOMAIN calA : u \notin DOMAIN calB /\ u \notin last.loaded.keys

\* The source view with every SUMMARY replaced.
Scrub(cal) == [u \in DOMAIN cal |-> [cal[u] EXCEPT !.summary = "Redacted"]]

\* C7: privacy of the busy mirror.  Every payload a run of sync_caldav_busy
\* writes to B is a placeholder with SUMMARY "Busy", no LAST-MODIFIED, and
\* the DTSTART and DTEND of the source event (its DTSTAMP is the time of the
\* run); and the operations planned on B are the same for the source view and
\* for the source view with every SUMMARY replaced.
C7_BusyMirrorPrivacy ==
    /\ (last.kind = "busy")
          => \A o \in OnCal(Writes(last.ops), "B") :
                /\ GetSummary(o.payload) = "Busy"
                /\ o.payload.lastmod = 0
                /\ o.payload.dtstamp <= clock
                /\ o.uid \in DOMAIN calA
                /\ ParseDtRange(o.payload) = ParseDtRange(calA[o.uid])
    /\ LoadBusy(busyState).ok
          => OnCal(BusyOps(BusyLoaded, Scrub(calA), calB, clock), "B")
                = OnCal(BusyPlanned, "B")

\* C7 witness: a run wrote a placeholder for a source event named "Lunch".
C7_Witness ==
    /\ last.kind = "busy"
    /\ last.outcome = "ok"
    /\ \E o \in OnCal(Writes(last.ops), "B") :
          /\ o.uid \in DOMAIN calA
          /\ GetSummary(calA[o.uid]) = "Lunch"
          /\ GetSummary(o.payload) = "Busy"

\* C8: state is persisted only after all mutations succeed.  When a backend
\* operation of a mapping invocation fails, no state file of the mapping has
\* been changed by that invocation.
C8_StateAfterAllMutations ==
    (last.outcome = "fail") => wrote = {}

\* C9: atomic state write.  A state file is never empty or partially written.
C9_AtomicStateWrite ==
    /\ busyState.fmt # "corrupt"
    /\ fullState.fmt # "corrupt"

\* C10: mode isolation.  A run whose loader finds a state file written by
\* another mode does not fail at the load, and the loader returns empty prior
\* state.
C10_ModeIsolation ==
    /\ (last.kind = "full" /\ fullState.fmt \in {"oneway", "busy"})
          => last.outcome # "load_error"
    /\ (fullState.fmt \in {"plain", "busy"})
          => LoadOneway(fullState) = [ok |-> TRUE, state |-> EmptyMap]
    /\ (busyState.fmt \in {"plain", "oneway"})
          => LoadBusy(busyState) = [ok |-> TRUE, state |-> EmptyBusy]

\* C11: distinct state files.  No run finds at its state_path a file written
\* by a reconciler call of another mode, source or target: for every other
\* call of the configuration that main() gives the same path as the call that
\* just ran, the file the run found is not in the format that call writes.
C11_DistinctStateFiles ==
    (last.kind \in {"full", "oneway", "busy"})
        => \A e1, e2 \in AllExecutions :
              (e1.fn = last.kind /\ e2 # e1 /\ e2.path = e1.path)
                  => last.file # FmtOf(e2.fn)

\* The calendar named name as the run recorded in last fetched it: the
\* current content with the run's operations undone.
PreCal(cal, name) ==
    LET ops     == OnCal(last.ops, name)
        created == {o.uid : o \in {x \in ops : x.op = "create"}}
        touched == {o.uid : o \in {x \in ops : x.op # "create"}}
    IN  [u \in (DOMAIN cal \ created) \cup touched |->
            IF u \in touched THEN (CHOOSE o \in ops : o.uid = u).old ELSE cal[u]]

\* The uid -> timestamp map the run recorded in last has persisted.
Persisted ==
    IF last.kind = "busy" THEN busyState.synced ELSE fullState.entries

\* The state records uid u with the larger timestamp of its two copies.
RecordsMax(state, a, b, u) ==
    /\ u \in DOMAIN state
    /\ state[u] = IsoFormat(Max(ParseTs(a[u]), ParseTs(b[u])))

\* C12 as stated: timestamp monotonicity.  After a successful run of any of
\* the three reconcilers, every uid that was on both calendars when the run
\* fetched them is recorded in the persisted state with max(ts_A, ts_B).
C12_TimestampMonotonicity ==
    (last.kind \in {"full", "oneway", "busy"} /\ last.outcome = "ok")
        => \A u \in DOMAIN PreCal(calA, "A") \cap DOMAIN PreCal(calB, "B") :
              RecordsMax(Persisted, PreCal(calA, "A"), PreCal(calB, "B"), u)

\* C12 amended: the same for the uids the reconcile loop finds in both of
\* its views: in FULL_ONEWAY the source event (on B) is not a Busy event; in
\* BUSY the target event (on B) is a Busy placeholder and the uid is not in
\* the loaded real_uids.
C12_TimestampMonotonicityInViews ==
    (last.kind \in {"full", "oneway", "busy"} /\ last.outcome = "ok")
        => \A u \in DOMAIN PreCal(calA, "A") \cap DOMAIN PreCal(calB, "B") :
              (CASE last.kind = "full" -> TRUE
                 [] last.kind = "oneway" -> GetSummary(PreCal(calB, "B")[u]) # "Busy"
                 [] last.kind = "busy" ->
                        /\ GetSummary(PreCal(calB, "B")[u]) = "Busy"
                        /\ u \notin last.loaded.real)
                  => RecordsMax(Persisted, PreCal(calA, "A"), PreCal(calB, "B"), u)

\* C12 witness: a successful FULL run has just updated the older copy of a
\* uid that was on both calendars with different timestamps, and recorded
\* the newer timestamp.
C12_Witness ==
    /\ last.kind = "full"
    /\ last.outcome = "ok"
    /\ \E o \in last.ops :
          /\ o.op = "update"
          /\ ParseTs(o.payload) > ParseTs(o.old)
          /\ fullState.entries[o.uid] = IsoFormat(ParseTs(o.payload))

\* C13: tombstones and busy_uids are disjoint.  The state a successful run of
\* sync_caldav_busy has persisted has no uid in both tombstones and
\* busy_uids, and every uid of busy_uids is a key of synced.
C13_TombstonesDisjointFromBusy ==
    (busyState.fmt = "busy")
        => /\ busyState.tombstones \cap busyState.busy_uids = {}
           /\ busyState.busy_uids \subseteq DOMAIN busyState.synced

\* C14: persisted real_uids reflects the target after Pass 1.  After a
\* successful run of sync_caldav_busy the persisted real_uids is the set of
\* uids of the non-Busy events that are on B at the end of the run.
C14_RealUidsAfterPass1 ==
    (last.kind = "busy" /\ last.outcome = "ok")
        => busyState.real_uids = DOMAIN RealMeta(calB)

\* The calendar an operation was issued on.
CalOf(name) == IF name = "A" THEN calA ELSE calB

\* C15: duplicate-UID fallback.  In each reconciler, a run in which a create
\* raised the duplicate-UID signal goes on to its end, and the calendar then
\* holds the payload of that create under its uid.
C15_DuplicateUidFallback ==
    (last.outcome = "dup")
        => /\ last.done
           /\ last.dup.uid \in DOMAIN CalOf(last.dup.cal)
           /\ CalOf(last.dup.cal)[last.dup.uid] = last.dup.payload

\* The configuration has a mapping main() rejects.
HasBadMapping(cfg) ==
    \E i \in 1..Len(cfg) : UnknownAccount(cfg[i]) \/ UnsupportedMode(cfg[i])

\* C16: configuration errors are fatal before any I/O.  When some mapping
\* of the list names an unknown account or an unsupported mode, main() never
\* fetches from a backend, never mutates a calendar and never writes a state
\* file, and it ends by sys.exit(1) and not otherwise.
C16_ConfigErrorsBeforeIO ==
    HasBadMapping(pc.cfg)
        => /\ wrote = {}
           /\ pc.stage \in {"loop", "exit"}

\* C17: codec errors skip the event.  A run over a view with an event the
\* codec cannot read does not end at that event: it is never ended by the
\* parse error, and the state a successful run persists has no entry for a
\* uid whose event on A or on B cannot be read.
C17_CodecErrorsSkipEvent ==
    /\ last.outcome # "parse_error"
    /\ (last.kind \in {"full", "oneway", "busy"} /\ last.outcome = "ok")
          => \A u \in DOMAIN Persisted :
                /\ u \in DOMAIN calA => ~Unparsable(calA[u])
                /\ u \in DOMAIN calB => ~Unparsable(calB[u])

\* C18: uid collision aborts the mapping.  A run whose fetched view of A or
\* of B held two events with the same uid has issued no remote mutation and
\* has written no state file.
C18_UidCollisionAborts ==
    (pc = "collision") => (wrote \cap {"mutation", "state"} = {})

\* C19: unreadable state is treated as no prior state.  A run of any of the
\* three reconcilers that finds an empty or truncated file (not valid JSON)
\* at its state_path does not fail at the load and proceeds with empty prior
\* state.
C19_UnreadableStateIsEmpty ==
    (last.kind \in {"full", "oneway", "busy"} /\ last.file = "corrupt")
        => /\ last.outcome # "load_error"
           /\ last.loaded = NoLoaded

\* The decision table of FULL mode, row by row, for prior keys P, source
\* view A (calendar nA) and target view B (calendar nB): the action of uid u.
TableAction(P, A, B, nA, nB, u) ==
    LET inP == u \in P
        inA == u \in DOMAIN A
        inB == u \in DOMAIN B
    IN  CASE inP /\ inA /\ ~inB -> {Op("delete", nA, u, NoEvent, A[u])}
          [] inP /\ inB /\ ~inA -> {Op("delete", nB, u, NoEvent, B[u])}
          [] ~inP /\ inA /\ ~inB -> {Op("create", nB, u, A[u], NoEvent)}
          [] ~inP /\ inB /\ ~inA -> {Op("create", nA, u, B[u], NoEvent)}
          [] inA /\ inB /\ ParseTs(A[u]) > ParseTs(B[u]) -> {Op("update", nB, u, A[u], B[u])}
          [] inA /\ inB /\ ParseTs(B[u]) > ParseTs(A[u]) -> {Op("update", nA, u, B[u], A[u])}
          [] OTHER -> {}

\* The decision table, third column: the uids kept and their timestamps.
TableNext(P, A, B) ==
    LET kept == {u \in DOMAIN A \cup DOMAIN B :
                    \/ u \in DOMAIN A /\ u \in DOMAIN B
                    \/ u \notin P}
    IN  [u \in kept |->
            IF u \in DOMAIN A /\ u \in DOMAIN B
            THEN IsoFormat(Max(ParseTs(A[u]), ParseTs(B[u])))
            ELSE IF u \in DOMAIN A THEN IsoFormat(ParseTs(A[u]))
            ELSE IsoFormat(ParseTs(B[u]))]

\* C20: FULL reconcile matches the decision table.  The operations a
\* successful run of sync_caldav_caldav issued are, uid by uid over
\* keys(P), keys(A) and keys(B), the actions of the table for the prior
\* state and the views the run had, and the state it persisted is the
\* table's next state.
C20_FullMatchesTable ==
    (last.kind = "full" /\ last.outcome = "ok")
        => LET A == PreCal(calB, "B")
               B == PreCal(calA, "A")
               P == last.loaded.keys
           IN  /\ last.ops = UNION {TableAction(P, A, B, "B", "A", u) :
                                      u \in P \cup DOMAIN A \cup DOMAIN B}
               /\ fullState = PlainFile(TableNext(P, A, B))

\* C20 witness: one successful FULL run deleted an orphan of a known uid and
\* updated the older copy of another uid.
C20_Witness ==
    /\ last.kind = "full"
    /\ last.outcome = "ok"
    /\ \E o \in last.ops : o.op = "delete" /\ o.uid \in last.loaded.keys
    /\ \E o \in last.ops : o.op = "update" /\ ParseTs(o.payload) > ParseTs(o.old)

\* The place of an operation in the order deletes-on-A, deletes-on-B,
\* creates, updates.
Rank(o) ==
    CASE o.op = "delete" /\ o.cal = "A" -> 1
      [] o.op = "delete" /\ o.cal = "B" -> 2
      [] o.op = "create" -> 3
      [] OTHER -> 4

\* C21: operation order within a mapping.  In every run the deletes on A are
\* issued before the deletes on B, these before the creates, and these
\* before the updates: no operation is issued after one of a later group.
C21_OperationOrder ==
    (last.kind \in {"full", "busy"} /\ last.outcome = "ok")
        => \A i, j \in 1..Len(wrote) : i < j => Rank(wrote[i]) <= Rank(wrote[j])

\* C22: feedback path of BUSY mode.  When a uid is in A and has a Busy
\* placeholder on B with ts_B > ts_A, a successful run issues exactly one
\* operation on A for that uid, an update whose payload is A's event with
\* DTSTART and DTEND of the placeholder and every other field as before,
\* issues no write on B for that uid, and records synced[uid] = ts_B with
\* the uid in busy_uids.
C22_BusyFeedbackPath ==
    (last.kind = "busy" /\ last.outcome = "ok")
        => LET A == PreCal(calA, "A")
               B == PreCal(calB, "B")
           IN  \A u \in DOMAIN A \cap DOMAIN B :
                  (GetSummary(B[u]) = "Busy" /\ ParseTs(B[u]) > ParseTs(A[u]))
                      => /\ {o \in OnCal(last.ops, "A") : o.uid = u}
                            = {Op("update", "A", u,
                                  Ev(A[u].lastmod, A[u].dtstamp, A[u].summary,
                                     B[u].dtstart, B[u].dtend),
                                  A[u])}
                         /\ {o \in Writes(OnCal(last.ops, "B")) : o.uid = u} = {}
                         /\ u \in DOMAIN busyState.synced
                         /\ busyState.synced[u] = IsoFormat(ParseTs(B[u]))
                         /\ u \in busyState.busy_uids

\* C22 amended: the same for a uid that is not in the loaded real_uids.  (A
\* uid of the loaded real_uids whose event on B is now a Busy event is in
\* deleted_real: step 5 deletes A's event before the loop of step 7.)
C22_BusyFeedbackPathUnlessReal ==
    (last.kind = "busy" /\ last.outcome = "ok")
        => LET A == PreCal(calA, "A")
               B == PreCal(calB, "B")
           IN  \A u \in (DOMAIN A \cap DOMAIN B) \ last.loaded.real :
                  (GetSummary(B[u]) = "Busy" /\ ParseTs(B[u]) > ParseTs(A[u]))
                      => /\ {o \in OnCal(last.ops, "A") : o.uid = u}
                            = {Op("update", "A", u,
                                  Ev(A[u].lastmod, A[u].dtstamp, A[u].summary,
                                     B[u].dtstart, B[u].dtend),
                                  A[u])}
                         /\ {o \in Writes(OnCal(last.ops, "B")) : o.uid = u} = {}
                         /\ u \in DOMAIN busyState.synced
                         /\ busyState.synced[u] = IsoFormat(ParseTs(B[u]))
                         /\ u \in busyState.busy_uids

\* A successful BUSY run has patched an event of A with the new time window
\* of its newer placeholder.
C22_Witness ==
    /\ last.kind = "busy"
    /\ last.outcome = "ok"
    /\ \E o \in last.ops :
          /\ o.op = "update"
          /\ o.cal = "A"
          /\ o.uid \notin last.loaded.real
          /\ o.payload.dtstart # o.old.dtstart
          /\ o.payload.summary = "Lunch"
          /\ GetSummary(PreCal(calB, "B")[o.uid]) = "Busy"
          /\ ParseTs(PreCal(calB, "B")[o.uid]) > ParseTs(o.old)

\* C23: no real event on B is lost without a deletion on A.  Whatever the
\* outcome of the stages of the BUSY mapping so far (the companion one-way
\* stage may have aborted after the busy stage persisted its state), a stage
\* of the BUSY mapping deletes a non-Busy event from B only if its uid was
\* on A at the start of an earlier stage.
C23_RealEventKeptUnlessSeenOnA ==
    last.kind \in {"busy", "oneway"}
        => \A o \in Deletes(OnCal(last.ops, "B")) :
              GetSummary(o.old) # "Busy" => o.uid \in seenA

\* The calendar as it was before the operations ops were applied to it.
UndoOps(cal, ops) ==
    LET created == {o.uid : o \in {x \in ops : x.op = "create"}}
        touched == {o.uid : o \in {x \in ops : x.op # "create"}}
    IN  [u \in (DOMAIN cal \ created) \cup touched |->
            IF u \in touched THEN (CHOOSE o \in ops : o.uid = u).old ELSE cal[u]]

\* C24: abort-and-retry equivalence in FULL mode.  When a run of
\* sync_caldav_caldav aborts after applying some of its planned operations
\* (the state file is left as it was) and a successful run follows with no
\* external change in between, the two calendars and the persisted state
\* are those that one uninterrupted successful run produces from the
\* original prior state and calendars.
C24_AbortRetryEquivalence ==
    (last.kind = "full" /\ last.outcome = "ok" /\ last.retry)
        => LET A0  == UndoOps(PreCal(calA, "A"), OnCal(last.aborted, "A"))
               B0  == UndoOps(PreCal(calB, "B"), OnCal(last.aborted, "B"))
               P   == [u \in last.loaded.keys |-> 0]
               ops == FullOps(P, B0, A0, "B", "A")
           IN  /\ calA = ApplyOps(A0, "A", ops)
               /\ calB = ApplyOps(B0, "B", ops)
               /\ fullState = PlainFile(FullNewState(P, B0, A0))

\* A successful run of sync_caldav_caldav has finished the work of a run
\* that aborted after applying part of its plan.
C24_Witness ==
    /\ last.kind = "full"
    /\ last.outcome = "ok"
    /\ last.retry
    /\ Writes(last.aborted) # {}
    /\ Deletes(last.ops) # {}
    /\ last.loaded.keys # {}

\* C25: every delete of a BUSY run has a witness in the loaded state.  A run
\* of sync_caldav_busy, whatever its outcome, deletes an event from A only
\* if its uid is in the loaded busy_uids or real_uids, and deletes an event
\* from B only if its uid is in the loaded synced keys or real_uids; a run
\* that loaded no state issues no delete.
C25_BusyDeletesHaveWitness ==
    last.kind = "busy"
        => /\ \A o \in Deletes(OnCal(last.ops, "A")) :
                 o.uid \in last.loaded.busy \cup last.loaded.real
           /\ \A o \in Deletes(OnCal(last.ops, "B")) :
                 o.uid \in last.loaded.keys \cup last.loaded.real
           /\ (last.loaded = NoLoaded => Deletes(last.ops) = {})

\* A BUSY run has deleted from A the event of a placeholder that is gone
\* from B: the uid is in the busy_uids the run loaded.
C25_Witness ==
    /\ last.kind = "busy"
    /\ last.outcome = "ok"
    /\ \E o \in Deletes(OnCal(last.ops, "A")) :
          o.uid \in last.loaded.busy /\ o.uid \notin last.loaded.real

====
